---------------------------- MODULE Spec2Model ----------------------------
(* A model of the API client of MSGA-react (src/src/services/api.ts):      *)
(* fetchWrapper, setGlobalLogout, and the list endpoints getWorks and      *)
(* getProfiles, together with the persistent storage entries `token` and   *)
(* `user` they read and remove.                                            *)
EXTENDS Integers, Sequences, FiniteSets, TLC

VARIABLES storage, globalLogout, registered, reqs, last

vars == <<storage, globalLogout, registered, reqs, last>>

(***************************************************************************)
(* Bounds of the model.                                                    *)
(***************************************************************************)
MaxInFlight == 2

(***************************************************************************)
(* JavaScript values.  A string is a sequence of one-character strings, a  *)
(* number is wrapped, an object is a sequence of <<key, value>> pairs in   *)
(* property order.                                                         *)
(***************************************************************************)
Undefined == [undef |-> TRUE]
NaN == [nan |-> TRUE]
Str(chars) == [str |-> chars]
Num(n) == [num |-> n]
Obj(pairs) == [obj |-> pairs]

IsStr(v) == DOMAIN v = {"str"}
IsNum(v) == DOMAIN v = {"num"}
IsObj(v) == DOMAIN v = {"obj"}

\* JavaScript truthiness, as used by `a || b` and `if (a)`.
Truthy(v) ==
    IF IsStr(v) THEN Len(v.str) > 0
    ELSE IF IsNum(v) THEN v.num # 0
    ELSE IF IsObj(v) THEN TRUE
    ELSE FALSE

HasKey(o, k) == \E i \in 1..Len(o.obj) : o.obj[i][1] = k

\* o[k]: undefined when the property is missing.
Get(o, k) ==
    IF HasKey(o, k)
    THEN o.obj[CHOOSE i \in 1..Len(o.obj) : o.obj[i][1] = k][2]
    ELSE Undefined

\* o[k] = v: an existing property keeps its place, a new one is appended.
Set(o, k, v) ==
    IF HasKey(o, k)
    THEN Obj([i \in 1..Len(o.obj) |->
                 IF o.obj[i][1] = k THEN <<k, v>> ELSE o.obj[i]])
    ELSE Obj(Append(o.obj, <<k, v>>))

UpperLetters == <<"A","B","C","D","E","F","G","H","I","J","K","L","M",
                  "N","O","P","Q","R","S","T","U","V","W","X","Y","Z">>
LowerLetters == <<"a","b","c","d","e","f","g","h","i","j","k","l","m",
                  "n","o","p","q","r","s","t","u","v","w","x","y","z">>

UpperSet == { UpperLetters[i] : i \in 1..26 }
LowerOf ==
    [c \in UpperSet |->
        LowerLetters[CHOOSE i \in 1..26 : UpperLetters[i] = c]]

LowerChar(c) == IF c \in UpperSet THEN LowerOf[c] ELSE c

\* String.prototype.toLowerCase
ToLowerCase(s) == [i \in 1..Len(s) |-> LowerChar(s[i])]

\* String.prototype.includes
Includes(s, sub) ==
    \E i \in 0..(Len(s) - Len(sub)) : SubSeq(s, i + 1, i + Len(sub)) = sub

Digits == <<"0","1","2","3","4","5","6","7","8","9">>
IsDigit(c) == \E d \in 1..10 : Digits[d] = c
DigitValue(c) == (CHOOSE d \in 1..10 : Digits[d] = c) - 1

\* The decimal text of a natural number, as a template literal renders it.
RECURSIVE ToDecimal(_)
ToDecimal(n) ==
    IF n < 10 THEN <<Digits[n + 1]>>
    ELSE Append(ToDecimal(n \div 10), Digits[(n % 10) + 1])

\* parseInt(key): the leading decimal digits, NaN when there are none.
RECURSIVE DigitPrefixValue(_, _, _)
DigitPrefixValue(s, i, acc) ==
    IF i > Len(s) \/ ~IsDigit(s[i]) THEN acc
    ELSE DigitPrefixValue(s, i + 1, acc * 10 + DigitValue(s[i]))

ParseInt(s) ==
    IF Len(s) = 0 \/ ~IsDigit(s[1]) THEN NaN
    ELSE Num(DigitPrefixValue(s, 1, 0))

(***************************************************************************)
(* JSON.stringify and JSON.parse of a flat object, over a token alphabet:  *)
(* punctuation, property names and values.                                 *)
(***************************************************************************)
Punct(p) == [p |-> p]
KeyTok(k) == [key |-> k]

Defined(o) == SelectSeq(o.obj, LAMBDA m : m[2] # Undefined)

RECURSIVE Members(_, _)
Members(ms, i) ==
    IF i > Len(ms) THEN <<>>
    ELSE (IF i > 1 THEN <<Punct(",")>> ELSE <<>>)
         \o <<KeyTok(ms[i][1]), Punct(":"), ms[i][2]>>
         \o Members(ms, i + 1)

JsonStringify(o) == <<Punct("{")>> \o Members(Defined(o), 1) \o <<Punct("}")>>

SyntaxError == [syntaxError |-> TRUE]

JsonParse(toks) ==
    IF /\ Len(toks) >= 2
       /\ toks[1] = Punct("{")
       /\ toks[Len(toks)] = Punct("}")
       /\ (Len(toks) = 2 \/ (Len(toks) - 1) % 4 = 0)
    THEN Obj([i \in 1..((Len(toks) - 1) \div 4) |->
                 <<toks[4 * i - 2].key, toks[4 * i]>>])
    ELSE SyntaxError

(***************************************************************************)
(* Texts of the program and of the backend.                                *)
(***************************************************************************)
RequestTo == <<"R","e","q","u","e","s","t"," ","t","o"," ">>
FailedWithStatus ==
    <<" ","f","a","i","l","e","d"," ","w","i","t","h"," ",
      "s","t","a","t","u","s"," ">>
Failed == <<" ","f","a","i","l","e","d">>
TokenWord == <<"t","o","k","e","n">>
BearerPrefix == <<"B","e","a","r","e","r"," ">>

InvalidToken == Str(<<"I","n","v","a","l","i","d"," ","t","o","k","e","n">>)
TokenExpired == Str(<<"T","o","k","e","n"," ","E","X","P","I","R","E","D">>)
JwtTOKEN == Str(<<"J","W","T"," ","T","O","K","E","N">>)
ForbiddenRole ==
    Str(<<"F","o","r","b","i","d","d","e","n",":"," ",
          "i","n","s","u","f","f","i","c","i","e","n","t"," ","r","o","l","e">>)
EmptyText == Str(<<>>)

(***************************************************************************)
(* The exported API functions modelled, each with the endpoint and the     *)
(* auth flag it passes to fetchWrapper.                                    *)
(***************************************************************************)
Api == {"login", "getUsers", "getWorks", "addWork", "getProfiles"}

ApiEndpoint(api) ==
    CASE api = "login" -> <<"/","l","o","g","i","n">>
      [] api = "getUsers" -> <<"/","u","s","e","r","s">>
      [] api = "getWorks" -> <<"/","w","o","r","k","s">>
      [] api = "addWork" -> <<"/","w","o","r","k","s">>
      [] api = "getProfiles" -> <<"/","p","r","o","f","i","l","e","s">>

ApiAuth(api) == api \in {"getUsers", "addWork"}

IsListApi(api) == api \in {"getWorks", "getProfiles"}

(***************************************************************************)
(* Persistent storage: the entries `token` and `user` of localStorage.     *)
(***************************************************************************)
Null == [null |-> TRUE]
StorageKeys == {"token", "user"}

GetItem(st, key) == st[key]
RemoveItem(st, key) == [st EXCEPT ![key] = Null]

EmptyStorage == [k \in StorageKeys |-> Null]

SessionIds == {1, 2}
SessionToken(k) == Str(<<"T", Digits[k + 1]>>)
SessionUser(k) == Str(<<"U", Digits[k + 1]>>)
SessionStorage(k) ==
    [k2 \in StorageKeys |->
        IF k2 = "token" THEN SessionToken(k) ELSE SessionUser(k)]

getAuthToken(st) == GetItem(st, "token")

(***************************************************************************)
(* fetchWrapper, lines 26-45: the headers of the outgoing request.         *)
(***************************************************************************)
DefaultHeaders ==
    Obj(<< <<"Content-Type", Str(<<"application/json">>)>> >>)

\* Faulty variant: the token is attached whether or not the call asks for auth.
RequestHeadersAlways(auth, st) ==
    IF Truthy(getAuthToken(st))
    THEN Set(DefaultHeaders, "Authorization",
             Str(BearerPrefix \o getAuthToken(st).str))
    ELSE DefaultHeaders

RequestHeaders(auth, st) ==
    IF auth /\ Truthy(getAuthToken(st))
    THEN Set(DefaultHeaders, "Authorization",
             Str(BearerPrefix \o getAuthToken(st).str))
    ELSE DefaultHeaders

(***************************************************************************)
(* fetchWrapper, lines 47-65: the failure path.                            *)
(***************************************************************************)
ResOk(status) == status >= 200 /\ status <= 299

\* Faulty variant: the synthetic message leaves the status out.
FallbackErrorNoStatus(endpoint, status) ==
    Obj(<< <<"error", Str(RequestTo \o endpoint \o Failed)>> >>)

FallbackError(endpoint, status) ==
    Obj(<< <<"error",
             Str(RequestTo \o endpoint \o FailedWithStatus
                 \o ToDecimal(status))>> >>)

\* await res.json().catch(() => ({error: ...}))
ParsedOrFallback(endpoint, status, body) ==
    IF JsonParse(body) = SyntaxError
    THEN FallbackError(endpoint, status)
    ELSE JsonParse(body)

\* Faulty variant: a statusCode of the body is kept (statusCode ??= res.status).
WithStatusCodeKeepBody(data, status) ==
    IF HasKey(data, "statusCode") THEN data
    ELSE Set(data, "statusCode", Num(status))

\* errorData.statusCode = res.status
WithStatusCode(data, status) == Set(data, "statusCode", Num(status))

ErrorData(endpoint, status, body) ==
    WithStatusCode(ParsedOrFallback(endpoint, status, body), status)

\* errorData.error || `Request to ${endpoint} failed`
Message(errorData, endpoint) ==
    IF Truthy(Get(errorData, "error"))
    THEN Get(errorData, "error")
    ELSE Str(RequestTo \o endpoint \o Failed)

\* Faulty variant: the match is case-sensitive (no toLowerCase).
SessionInvalidatedCaseSensitive(status, errorData) ==
    /\ status \in {401, 403}
    /\ Get(errorData, "error") # Undefined
    /\ Includes(Get(errorData, "error").str, TokenWord)

\* Faulty variant: every 401 or 403 invalidates the session, whatever its message.
SessionInvalidatedAnyMessage(status, errorData) ==
    status \in {401, 403}

\* [401, 403].includes(res.status) &&
\*     errorData.error?.toLowerCase().includes('token')
SessionInvalidated(status, errorData) ==
    /\ status \in {401, 403}
    /\ Get(errorData, "error") # Undefined
    /\ Includes(ToLowerCase(Get(errorData, "error").str), TokenWord)

(***************************************************************************)
(* The settled state of a call's promise.                                  *)
(***************************************************************************)
Pending == [state |-> "pending"]
Fulfilled(v) == [state |-> "fulfilled", value |-> v]
Rejected(name, message) ==
    [state |-> "rejected", name |-> name, message |-> message]

\* The message of the TypeError a rejected fetch() carries.
FailedToFetch == <<[text |-> "Failed to fetch"]>>
\* A response body that is not JSON text.
NotJson == <<[text |-> "<html>"]>>

(***************************************************************************)
(* Lines 54-64 run without an await in between.  They are modelled as the  *)
(* statements in source order, each applied to the handler's environment:  *)
(* the storage, the trace of side effects so far (each with the storage it *)
(* left behind), and the promise.                                          *)
(***************************************************************************)
\* Faulty variant: the callback runs before the storage is cleared.
InvalidationStepsLogoutFirst ==
    <<"logout", "removeToken", "removeUser", "throw">>

InvalidationSteps == <<"removeToken", "removeUser", "logout", "throw">>
PlainSteps == <<"throw">>

FailureSteps(status, errorData) ==
    IF SessionInvalidated(status, errorData)
    THEN InvalidationSteps
    ELSE PlainSteps

\* globalLogout?.(true, message)
CallLogout(env, fn, message) ==
    IF fn = Undefined THEN env
    ELSE [env EXCEPT !.trace =
             Append(@, [op |-> "globalLogout", fn |-> fn, silent |-> TRUE,
                        message |-> message, storage |-> env.storage])]

\* throw new Error(JSON.stringify(errorData))
Throw(env, errorData) ==
    [env EXCEPT !.result = Rejected("Error", JsonStringify(errorData)),
                !.trace = Append(@, [op |-> "throw", storage |-> env.storage])]

RemoveStep(env, key) ==
    [env EXCEPT !.storage = RemoveItem(@, key),
                !.trace = Append(@, [op |-> "removeItem", key |-> key,
                                      storage |-> RemoveItem(env.storage, key)])]

Step(env, step, fn, message, errorData) ==
    CASE step = "removeToken" -> RemoveStep(env, "token")
      [] step = "removeUser" -> RemoveStep(env, "user")
      [] step = "logout" -> CallLogout(env, fn, message)
      [] step = "throw" -> Throw(env, errorData)

RECURSIVE Run(_, _, _, _, _)
Run(steps, env, fn, message, errorData) ==
    IF steps = <<>> \/ env.result # Pending THEN env
    ELSE Run(Tail(steps), Step(env, Head(steps), fn, message, errorData),
             fn, message, errorData)

\* Faulty variant: a response that finds no token stored is taken for a duplicate
\* and only raised.
HandleFailureDedup(endpoint, status, body, st, fn) ==
    LET errorData == ErrorData(endpoint, status, body)
        message == Message(errorData, endpoint)
    IN Run(IF getAuthToken(st) = Null THEN PlainSteps
           ELSE FailureSteps(status, errorData),
           [storage |-> st, trace |-> <<>>, result |-> Pending],
           fn, message, errorData)

\* Lines 47-65, for a response that is not ok.
HandleFailure(endpoint, status, body, st, fn) ==
    LET errorData == ErrorData(endpoint, status, body)
        message == Message(errorData, endpoint)
    IN Run(FailureSteps(status, errorData),
           [storage |-> st, trace |-> <<>>, result |-> Pending],
           fn, message, errorData)

\* Line 67, return res.json(): a body that is no JSON rejects the call.
HandleOk(body, st) ==
    [storage |-> st, trace |-> <<>>,
     result |-> IF JsonParse(body) = SyntaxError
                THEN Rejected("SyntaxError", body)
                ELSE Fulfilled(JsonParse(body))]

HandleResponse(endpoint, status, body, st, fn) ==
    IF ResOk(status) THEN HandleOk(body, st)
    ELSE HandleFailure(endpoint, status, body, st, fn)

(***************************************************************************)
(* getWorks and getProfiles: the keyed mapping becomes a list.             *)
(***************************************************************************)
\* raw[key].id || parseInt(key)
EntryId(entry, key) ==
    IF Truthy(Get(entry, "id")) THEN Get(entry, "id") ELSE ParseInt(key)

\* Object.keys(raw).map(key => ({...raw[key], id: ...}))
MapKeyed(raw) ==
    [i \in 1..Len(raw.obj) |->
        Set(raw.obj[i][2], "id", EntryId(raw.obj[i][2], raw.obj[i][1]))]

getWorks(r) ==
    IF r.state = "fulfilled" THEN Fulfilled([list |-> MapKeyed(r.value)])
    ELSE r

getProfiles(r) ==
    IF r.state = "fulfilled" THEN Fulfilled([list |-> MapKeyed(r.value)])
    ELSE r

ApiResult(api, r) ==
    CASE api = "getWorks" -> getWorks(r)
      [] api = "getProfiles" -> getProfiles(r)
      [] OTHER -> r

(***************************************************************************)
(* What the backend may answer.                                            *)
(***************************************************************************)
Statuses == {200, 401, 403, 500}

ErrorObjects ==
    { Obj(<< <<"error", e>>, <<"statusCode", sc>>, <<"details", d>> >>) :
        e \in {Undefined, EmptyText, InvalidToken, TokenExpired, JwtTOKEN,
               ForbiddenRole},
        sc \in {Undefined, Num(200)},
        d \in {Undefined, Str(<<"d">>)} }

ErrorBodies == { JsonStringify(o) : o \in ErrorObjects } \cup {NotJson}

PayloadBodies ==
    { JsonStringify(Obj(<<>>)),
      JsonStringify(Obj(<< <<"error", InvalidToken>> >>)),
      NotJson }

Entries ==
    { Obj(<< <<"id", id>>, <<"title", Str(<<t>>)>> >>) :
        id \in {Num(0), Num(42)}, t \in {"x", "y"} }
    \cup { Obj(<< <<"title", Str(<<t>>)>> >>) : t \in {"x", "y"} }

Key3 == <<"3">>
Key17 == <<"1", "7">>

Mappings ==
    {Obj(<<>>)}
    \cup { Obj(<< <<k, e>> >>) : k \in {Key3, Key17}, e \in Entries }
    \cup { Obj(<< <<Key3, e1>>, <<Key17, e2>> >>) :
             e1 \in Entries, e2 \in Entries }

MappingBodies == { JsonStringify(m) : m \in Mappings } \cup {NotJson}

BodiesFor(api, status) ==
    IF ~ResOk(status) THEN ErrorBodies
    ELSE IF IsListApi(api) THEN MappingBodies
    ELSE PayloadBodies

\* The reduced answers used when several calls are in flight.
ConcApi == {"getUsers"}
ConcStatuses == {401}
ConcBodies ==
    { JsonStringify(Obj(<< <<"error", InvalidToken>> >>)),
      JsonStringify(Obj(<< <<"error", ForbiddenRole>> >>)) }

(***************************************************************************)
(* State.                                                                  *)
(*   storage       localStorage, entries `token` and `user`                *)
(*   globalLogout  the registered logout callback, or undefined            *)
(*   registered    history of setGlobalLogout: the argument of its latest  *)
(*                 call (undefined before the first) and the other         *)
(*                 callbacks passed to it earlier                          *)
(*   reqs          the calls of fetchWrapper in flight, by slot            *)
(*   last          what the caller of the call that settled most recently  *)
(*                 can observe: what was sent, what came back, the storage *)
(*                 before and after the response was handled, the side     *)
(*                 effects in order, and the promise.  It is forgotten     *)
(*                 when the next call is made.                             *)
(***************************************************************************)
Slots == 1..MaxInFlight

Fn(name) == [fn |-> name]
LogoutFns == {Fn("fnA"), Fn("fnB")}

Idle ==
    [pc |-> "idle", api |-> "none", headers |-> DefaultHeaders,
     sent |-> 0, status |-> 0]

NoCall ==
    [api |-> "none", headers |-> DefaultHeaders, sent |-> 0,
     kind |-> "none", status |-> 0, body |-> <<>>,
     before |-> EmptyStorage, after |-> EmptyStorage,
     registered |-> Undefined,
     trace |-> <<>>, result |-> Pending]

Init ==
    /\ storage \in {EmptyStorage} \cup { SessionStorage(k) : k \in SessionIds }
    /\ globalLogout = Undefined
    /\ registered = [latest |-> Undefined, earlier |-> {}]
    /\ reqs = [c \in Slots |-> Idle]
    /\ last = NoCall

Registering(fn) ==
    [latest |-> fn,
     earlier |-> (registered.earlier \cup
                     (IF registered.latest = Undefined THEN {}
                      ELSE {registered.latest})) \ {fn}]

\* Faulty variant: only the first registration is kept.
setGlobalLogoutOnce(fn) ==
    /\ globalLogout' = IF globalLogout = Undefined THEN fn ELSE globalLogout
    /\ registered' = Registering(fn)
    /\ UNCHANGED <<storage, reqs, last>>

\* setGlobalLogout(logoutFn)
setGlobalLogout(fn) ==
    /\ globalLogout' = fn
    /\ registered' = Registering(fn)
    /\ UNCHANGED <<storage, reqs, last>>

\* A login or registration succeeded: the session store writes both entries.
StoreSession(k) ==
    /\ storage' = SessionStorage(k)
    /\ UNCHANGED <<globalLogout, registered, reqs, last>>

\* An API function is called: fetchWrapper runs up to `await fetch(...)`.
Issue(c, api) ==
    /\ reqs[c].pc = "idle"
    /\ \A d \in Slots : d < c => reqs[d].pc # "idle"
    /\ reqs' = [reqs EXCEPT ![c] =
                   [pc |-> "fetching", api |-> api,
                    headers |-> RequestHeaders(ApiAuth(api), storage),
                    sent |-> 1, status |-> 0]]
    /\ last' = NoCall
    /\ UNCHANGED <<storage, globalLogout, registered>>

\* Faulty variant: a rejected fetch is tried once more before it is given up.
FetchRejectsRetry(c) ==
    /\ reqs[c].pc = "fetching"
    /\ UNCHANGED <<storage, globalLogout, registered>>
    /\ IF reqs[c].sent < 2
       THEN /\ reqs' = [reqs EXCEPT ![c].sent = 2]
            /\ UNCHANGED last
       ELSE /\ reqs' = [reqs EXCEPT ![c] = Idle]
            /\ last' = [NoCall EXCEPT
                           !.api = reqs[c].api, !.headers = reqs[c].headers,
                           !.sent = reqs[c].sent, !.kind = "network",
                           !.before = storage, !.after = storage',
                           !.registered = registered.latest,
                           !.result = Rejected("TypeError", FailedToFetch)]

\* fetch() rejects: no response was received.
FetchRejects(c) ==
    /\ reqs[c].pc = "fetching"
    /\ reqs' = [reqs EXCEPT ![c] = Idle]
    /\ UNCHANGED <<storage, globalLogout, registered>>
    /\ last' = [NoCall EXCEPT
                   !.api = reqs[c].api, !.headers = reqs[c].headers,
                   !.sent = reqs[c].sent, !.kind = "network",
                   !.before = storage, !.after = storage',
                   !.registered = registered.latest,
                   !.result = Rejected("TypeError", FailedToFetch)]

\* fetch() resolves with a response: its status is known, its body is not
\* yet read (`await res.json()`).
FetchResolves(c, status) ==
    /\ reqs[c].pc = "fetching"
    /\ reqs' = [reqs EXCEPT ![c].pc = "parsing", ![c].status = status]
    /\ UNCHANGED <<storage, globalLogout, registered, last>>

\* res.json() settles: the rest of fetchWrapper, and of the API function
\* that awaited it, runs to its end.
BodyArrives(c, body) ==
    /\ reqs[c].pc = "parsing"
    /\ \E env \in {HandleResponse(ApiEndpoint(reqs[c].api), reqs[c].status,
                                    body, storage, globalLogout)} :
          /\ storage' = env.storage
          /\ last' = [NoCall EXCEPT
                         !.api = reqs[c].api, !.headers = reqs[c].headers,
                         !.sent = reqs[c].sent, !.kind = "http",
                         !.status = reqs[c].status, !.body = body,
                         !.before = storage, !.after = env.storage,
                         !.registered = registered.latest,
                         !.trace = env.trace,
                         !.result = ApiResult(reqs[c].api, env.result)]
    /\ reqs' = [reqs EXCEPT ![c] = Idle]
    /\ UNCHANGED <<globalLogout, registered>>

\* Calls made one at a time, over every answer of the backend.
Next ==
    \/ \E fn \in LogoutFns : setGlobalLogout(fn)
    \/ \E k \in SessionIds : StoreSession(k)
    \/ \E api \in Api : Issue(1, api)
    \/ FetchRejects(1)
    \/ \E status \in Statuses : FetchResolves(1, status)
    \/ \E body \in BodiesFor(reqs[1].api, reqs[1].status) : BodyArrives(1, body)

Spec == Init /\ [][Next]_vars

\* Up to MaxInFlight calls in flight at once, over the reduced answers.
NextConc ==
    \/ \E fn \in LogoutFns : setGlobalLogout(fn)
    \/ \E k \in SessionIds : StoreSession(k)
    \/ \E c \in Slots, api \in ConcApi : Issue(c, api)
    \/ \E c \in Slots : FetchRejects(c)
    \/ \E c \in Slots, status \in ConcStatuses : FetchResolves(c, status)
    \/ \E c \in Slots, body \in ConcBodies : BodyArrives(c, body)

SpecConc == Init /\ [][NextConc]_vars


(***************************************************************************)
(* Properties.  They read `last`, the call that settled most recently.     *)
(***************************************************************************)
\* The error message of the response body; undefined when the body is no
\* JSON or carries none.
BodyError ==
    IF JsonParse(last.body) = SyntaxError THEN Undefined
    ELSE Get(JsonParse(last.body), "error")

\* The messages of the backend that contain "token" in some letter case.
TokenMessages == {InvalidToken, TokenExpired, JwtTOKEN}

HttpFailure == last.kind = "http" /\ ~ResOk(last.status)

Invalidating ==
    /\ last.kind = "http"
    /\ last.status \in {401, 403}
    /\ BodyError \in TokenMessages

LogoutCalls == SelectSeq(last.trace, LAMBDA e : e.op = "globalLogout")

\* The ApiError decoded from the message of the error thrown.
Thrown == JsonParse(last.result.message)

RejectsWithApiError ==
    /\ last.result.state = "rejected"
    /\ last.result.name = "Error"
    /\ Thrown # SyntaxError
    /\ Get(Thrown, "statusCode") = Num(last.status)

\* C1: a 401 or 403 response whose error message contains "token" in any
\* letter case leaves neither `token` nor `user` in storage when the call
\* rejects, and the registered logout callback has been invoked exactly
\* once, with (true, the body's error message).
C1_InvalidationClearsAndNotifies ==
    Invalidating =>
        /\ last.result.state = "rejected"
        /\ last.after["token"] = Null
        /\ last.after["user"] = Null
        /\ last.registered # Undefined =>
              /\ Len(LogoutCalls) = 1
              /\ LogoutCalls[1].fn = last.registered
              /\ LogoutCalls[1].silent = TRUE
              /\ LogoutCalls[1].message = BodyError

C1_Witness ==
    /\ Invalidating
    /\ last.status = 403
    /\ BodyError = JwtTOKEN
    /\ last.before = SessionStorage(1)
    /\ last.after = EmptyStorage
    /\ last.registered = Fn("fnA")
    /\ Len(LogoutCalls) = 1

BearerOf(k) == Str(<<"B","e","a","r","e","r"," ","T", Digits[k + 1]>>)

\* C3: the request carries an Authorization header iff the call asks for
\* auth and a token is stored when it is issued; the value is then
\* `Bearer <token>`; without a stored token the request is sent all the
\* same, without the header.
C3_AuthorizationHeader ==
    [][\A c \in Slots :
          (reqs[c].pc = "idle" /\ reqs'[c].pc = "fetching") =>
              /\ reqs'[c].sent = 1
              /\ HasKey(reqs'[c].headers, "Authorization")
                    <=> (ApiAuth(reqs'[c].api) /\ storage["token"] # Null)
              /\ \A k \in SessionIds :
                    (ApiAuth(reqs'[c].api) /\ storage["token"] = SessionToken(k))
                        => Get(reqs'[c].headers, "Authorization") = BearerOf(k)
      ]_vars

C3_Witness ==
    /\ reqs[1].pc = "fetching"
    /\ reqs[1].api = "addWork"
    /\ reqs[1].sent = 1
    /\ Get(reqs[1].headers, "Authorization") = BearerOf(2)

\* The text `Request to /users failed with status 500`.
UsersFailed500 ==
    Str(<<"R","e","q","u","e","s","t"," ","t","o"," ",
          "/","u","s","e","r","s",
          " ","f","a","i","l","e","d"," ","w","i","t","h"," ",
          "s","t","a","t","u","s"," ","5","0","0">>)

\* C4: a failure whose body is no JSON rejects with an error whose message
\* decodes to an ApiError with error `Request to <endpoint> failed with
\* status <status>` and statusCode the HTTP status.
C4_FallbackError ==
    (HttpFailure /\ JsonParse(last.body) = SyntaxError) =>
        /\ RejectsWithApiError
        /\ Get(Thrown, "error") =
              Str(RequestTo \o ApiEndpoint(last.api) \o FailedWithStatus
                  \o ToDecimal(last.status))
        /\ (last.api = "getUsers" /\ last.status = 500)
              => Get(Thrown, "error") = UsersFailed500

C4_Witness ==
    /\ HttpFailure
    /\ last.body = NotJson
    /\ last.api = "getUsers"
    /\ last.status = 500
    /\ Get(Thrown, "error") = UsersFailed500
    /\ Get(Thrown, "statusCode") = Num(500)

KeyNumber(key) == IF key = Key3 THEN Num(3) ELSE Num(17)

\* C6: getWorks and getProfiles turn the keyed mapping into a list with one
\* entry per key; an entry keeps the other fields of the mapped value, and
\* its id is the value's own id when that is present (0 included), else
\* the key parsed as an integer.
C6_ListConversion ==
    (last.kind = "http" /\ IsListApi(last.api)
        /\ last.result.state = "fulfilled") =>
        LET raw == JsonParse(last.body).obj
            list == last.result.value.list
        IN /\ Len(list) = Len(raw)
           /\ \A i \in 1..Len(raw) :
                 /\ Get(list[i], "title") = Get(raw[i][2], "title")
                 /\ Get(list[i], "id") =
                       (IF HasKey(raw[i][2], "id") THEN Get(raw[i][2], "id")
                        ELSE KeyNumber(raw[i][1]))

\* C7: when fetch rejects, the failure propagates as it is: it is no
\* JSON-serialized ApiError, storage is left as it was, no logout callback
\* is invoked and the request is not sent again.
C7_NetworkFailurePropagates ==
    last.kind = "network" =>
        /\ last.result = Rejected("TypeError", FailedToFetch)
        /\ JsonParse(last.result.message) = SyntaxError
        /\ last.after = last.before
        /\ LogoutCalls = <<>>
        /\ last.sent = 1

C7_Witness ==
    /\ last.kind = "network"
    /\ last.api = "getUsers"
    /\ last.before = SessionStorage(1)
    /\ last.after = SessionStorage(1)
    /\ last.registered = Fn("fnA")
    /\ last.result.state = "rejected"

\* C8: a session-invalidating response invokes the callback of the latest
\* setGlobalLogout call and none passed to an earlier call; with no
\* callback ever registered it still clears `token` and `user` and rejects
\* with the ApiError.
C8_LatestCallbackOnly ==
    Invalidating =>
        /\ \A i \in 1..Len(LogoutCalls) : LogoutCalls[i].fn = last.registered
        /\ last.registered # Undefined => Len(LogoutCalls) = 1
        /\ last.registered = Undefined =>
              /\ LogoutCalls = <<>>
              /\ last.after = EmptyStorage
              /\ RejectsWithApiError

C8_Witness ==
    /\ Invalidating
    /\ last.registered = Fn("fnB")
    /\ registered = [latest |-> Fn("fnB"), earlier |-> {Fn("fnA")}]
    /\ Len(LogoutCalls) = 1
    /\ LogoutCalls[1].fn = Fn("fnB")

\* C9: on a session-invalidating response `token` is removed, then `user`,
\* then the logout callback is invoked (it sees neither entry), then the
\* ApiError is raised: the caller never sees the rejection with an entry
\* still stored or before the callback has run.
C9_ClearThenNotifyThenThrow ==
    Invalidating =>
        LET n == Len(last.trace)
        IN /\ n = IF last.registered = Undefined THEN 3 ELSE 4
           /\ last.trace[1].op = "removeItem" /\ last.trace[1].key = "token"
           /\ last.trace[2].op = "removeItem" /\ last.trace[2].key = "user"
           /\ last.registered # Undefined =>
                 /\ last.trace[3].op = "globalLogout"
                 /\ last.trace[3].storage = EmptyStorage
           /\ last.trace[n].op = "throw"
           /\ last.trace[n].storage = EmptyStorage
           /\ last.result.state = "rejected"

C9_Witness ==
    /\ Invalidating
    /\ last.before = SessionStorage(1)
    /\ Len(last.trace) = 4
    /\ last.trace[3].op = "globalLogout"
    /\ last.trace[3].storage = EmptyStorage
    /\ last.trace[4].op = "throw"

\* C10: with several calls in flight the token is read once, at issue; a
\* session-invalidating response to a call issued under an older token
\* removes whatever session is stored by then and invokes the callback,
\* and every such response invokes it once, also when an earlier one has
\* cleared the storage already.
C10_StaleResponseClearsNewSession ==
    Invalidating =>
        /\ last.after = EmptyStorage
        /\ last.registered # Undefined => Len(LogoutCalls) = 1

C10_Witness ==
    /\ Invalidating
    /\ Get(last.headers, "Authorization") = BearerOf(1)
    /\ last.before = SessionStorage(2)
    /\ last.after = EmptyStorage
    /\ storage = EmptyStorage
    /\ Len(LogoutCalls) = 1
    /\ \E c \in Slots : reqs[c].pc = "parsing" /\ reqs[c].status = 401

=============================================================================
